---- MODULE Spec2Model ----
(***************************************************************************)
(* uno_mux: a driver for a 16 channel multiplexer (CD74HC4067) with four   *)
(* select lines, one shared I/O line and an active-low enable line, and    *)
(* the 4-bit channel index type U4 (src/src/lib.rs).                       *)
(*                                                                         *)
(* A pin level is a BOOLEAN (TRUE = high).  A Result is a sequence of      *)
(* strings: <<"Ok">> is Ok(()), <<"Ok", "true">> is Ok(true),              *)
(* <<"Err", e>> is Err(e) and <<"Err", "Select2", e>> is Err(Select2(e)).  *)
(* A U4 is the one-field tuple struct U4(u16), modelled as <<n>>.          *)
(***************************************************************************)
EXTENDS Integers, Sequences, FiniteSets, TLC

VARIABLES
    select0, select1, select2, select3,  \* levels of the four select lines
    io,                                  \* level of the shared I/O line
    enable,                              \* level of the enable line
    op,                                  \* the last call on the Multiplexer
    result,                              \* what that call returned
    log,                                 \* the pin calls it made, in order
    prev,                                \* name and result tag of the call before
    uop,                                 \* the last operation on U4
    uin,                                 \* its u16 input (<<>> when none)
    ures,                                \* the value it returned
    uout                                 \* u16::from of that value (<<>> before)

muxVars ==
    <<select0, select1, select2, select3, io, enable, op, result, log, prev>>
u4Vars == <<uop, uin, ures, uout>>
vars == <<select0, select1, select2, select3, io, enable, op, result, log,
          prev, uop, uin, ures, uout>>

----------------------------------------------------------------------------
(* pub mod u4 *)

U16Max == 65535
U16 == 0..U16Max

U4(n) == <<n>>

MAX == U4(15)
ZERO == U4(0)
ONE == U4(1)
TWO == U4(2)
THREE == U4(3)
FOUR == U4(4)
FIVE == U4(5)
SIX == U4(6)
SEVEN == U4(7)
EIGHT == U4(8)
NINE == U4(9)
TEN == U4(10)
ELEVEN == U4(11)
TWELVE == U4(12)
THIRTEEN == U4(13)
FOURTEEN == U4(14)
FIFTEEN == U4(15)

U4Constants ==
    {MAX, ZERO, ONE, TWO, THREE, FOUR, FIVE, SIX, SEVEN, EIGHT, NINE, TEN,
     ELEVEN, TWELVE, THIRTEEN, FOURTEEN, FIFTEEN}

\* a truncation that forgets to reduce its input
truncated_unreduced(val) == U4(val)

\* U4::truncated: U4(val % U4::MAX.0)
truncated(val) == U4(val % MAX[1])

\* impl From<U4> for u16: u4.0
U16From(u4) == u4[1]

\* a validation that also rejects the largest channel
try_from_exclusive(val) ==
    IF val < MAX[1] THEN [tag |-> "Ok", val |-> U4(val)]
    ELSE [tag |-> "Err", val |-> <<>>]

\* impl TryFrom<u16> for U4, Error = ()
try_from(val) ==
    IF val <= MAX[1] THEN [tag |-> "Ok", val |-> U4(val)]
    ELSE [tag |-> "Err", val |-> <<>>]

----------------------------------------------------------------------------
(* The pins the Multiplexer owns (embedded-hal OutputPin / InputPin).  A    *)
(* write either takes effect and returns Ok(()), or is rejected with the   *)
(* pin's error and leaves the level as it was.                             *)

\* the values of each pin's Error type
PinErrors ==
    [select0 |-> {"S0::Error"}, select1 |-> {"S1::Error"},
     select2 |-> {"S2::Error"}, select3 |-> {"S3::Error"},
     io |-> {"IO::Busy", "IO::Fault"}, enable |-> {"EN::Busy", "EN::Fault"}]

\* what a pin can answer to one call: "ok", or one of its errors
Outcomes(pin) == {"ok"} \cup PinErrors[pin]

BoolStr(b) == IF b THEN "true" ELSE "false"

PinSetHigh(level, out) ==
    [level |-> IF out = "ok" THEN TRUE ELSE level,
     call |-> "set_high", out |-> out,
     ret |-> IF out = "ok" THEN <<"Ok">> ELSE <<"Err", out>>]

PinSetLow(level, out) ==
    [level |-> IF out = "ok" THEN FALSE ELSE level,
     call |-> "set_low", out |-> out,
     ret |-> IF out = "ok" THEN <<"Ok">> ELSE <<"Err", out>>]

PinIsHigh(level, out) ==
    [call |-> "is_high", out |-> out,
     ret |-> IF out = "ok" THEN <<"Ok", BoolStr(level)>> ELSE <<"Err", out>>]

PinIsLow(level, out) ==
    [call |-> "is_low", out |-> out,
     ret |-> IF out = "ok" THEN <<"Ok", BoolStr(~level)>> ELSE <<"Err", out>>]

IoChannelId == "IO::ID"

LogEntry(pin, r) == [pin |-> pin, call |-> r.call, out |-> r.out, ret |-> r.ret]

----------------------------------------------------------------------------
(* Multiplexer *)

SelectPin == <<"select0", "select1", "select2", "select3">>
SelectTag == <<"Select0", "Select1", "Select2", "Select3">>

\* a set_pin that only ever raises a line
set_pin_high_only(level, on, out) ==
    IF on THEN PinSetHigh(level, out)
    ELSE [level |-> level, call |-> "set_low", out |-> out, ret |-> <<"Ok">>]

\* fn set_pin
set_pin(level, on, out) ==
    IF on THEN PinSetHigh(level, out) ELSE PinSetLow(level, out)

\* Result::map_err(MultiplexSelectionError::SelectK)
map_err(ret, tag) ==
    IF ret[1] = "Err" THEN <<"Err", tag>> \o Tail(ret) ELSE ret

\* the shift applied to the result of the mask: selection >> (k & 1)
SelectBitShiftOfMask(selection, k) ==
    (selection \div (2 ^ (k % 2))) # 0

\* (selection >> k & 1) != 0
SelectBit(selection, k) == ((selection \div (2 ^ k)) % 2) # 0

\* a line that is written even after an earlier line failed; the first
\* error is still the one returned
SelectLineNoAbort(st, k, selection, outs) ==
    LET r == set_pin(st.levels[k + 1], SelectBit(selection, k), outs[k + 1])
        e == map_err(r.ret, SelectTag[k + 1])
    IN  [levels |-> [st.levels EXCEPT ![k + 1] = r.level],
         log |-> Append(st.log, LogEntry(SelectPin[k + 1], r)),
         ret |-> IF st.returned THEN st.ret ELSE e,
         returned |-> st.returned \/ e[1] = "Err"]

\* set_pin(&mut self.selectK, ...).map_err(SelectK)? : one line of select;
\* once an earlier line has returned its error nothing more runs
SelectLine(st, k, selection, outs) ==
    IF st.returned THEN st
    ELSE LET r == set_pin(st.levels[k + 1], SelectBit(selection, k), outs[k + 1])
             e == map_err(r.ret, SelectTag[k + 1])
         IN  [levels |-> [st.levels EXCEPT ![k + 1] = r.level],
              log |-> Append(st.log, LogEntry(SelectPin[k + 1], r)),
              ret |-> e,
              returned |-> e[1] = "Err"]

\* select with select2 driven before select1
select_swapped(levels, channel, outs) ==
    LET selection == U16From(channel)
        st == [levels |-> levels, log |-> <<>>, ret |-> <<"Ok">>,
               returned |-> FALSE]
        s0 == SelectLine(st, 0, selection, outs)
        s1 == SelectLine(s0, 2, selection, outs)
        s2 == SelectLine(s1, 1, selection, outs)
    IN  SelectLine(s2, 3, selection, outs)

\* select that puts the lines back as they were when a line fails
select_rollback(levels, channel, outs) ==
    LET selection == U16From(channel)
        st == [levels |-> levels, log |-> <<>>, ret |-> <<"Ok">>,
               returned |-> FALSE]
        s0 == SelectLine(st, 0, selection, outs)
        s1 == SelectLine(s0, 1, selection, outs)
        s2 == SelectLine(s1, 2, selection, outs)
        s3 == SelectLine(s2, 3, selection, outs)
    IN  IF s3.returned THEN [s3 EXCEPT !.levels = levels] ELSE s3

\* Multiplexer::select
select(levels, channel, outs) ==
    LET selection == U16From(channel)
        st == [levels |-> levels, log |-> <<>>, ret |-> <<"Ok">>,
               returned |-> FALSE]
        s0 == SelectLine(st, 0, selection, outs)
        s1 == SelectLine(s0, 1, selection, outs)
        s2 == SelectLine(s1, 2, selection, outs)
    IN  SelectLine(s2, 3, selection, outs)

\* enable driving the line high
mux_enable_high(level, out) == PinSetHigh(level, out)

\* Multiplexer::enable: self.enable.set_low()
mux_enable(level, out) == PinSetLow(level, out)

\* Multiplexer::disable: self.enable.set_high()
mux_disable(level, out) == PinSetHigh(level, out)

\* impl OutputPin for Multiplexer
mux_set_high(level, out) == PinSetHigh(level, out)
mux_set_low(level, out) == PinSetLow(level, out)

\* impl InputPin for Multiplexer
mux_is_high(level, out) == PinIsHigh(level, out)
mux_is_low(level, out) == PinIsHigh(level, out)

\* impl Channel<ADC> for Multiplexer
mux_channel == [call |-> "channel", out |-> "ok", ret |-> <<IoChannelId>>]

Call(name, arg) == [name |-> name, arg |-> arg]

\* the call that is about to become the previous one
Previous == [name |-> op.name, tag |-> IF result = <<>> THEN "none" ELSE result[1]]

----------------------------------------------------------------------------
(* Actions of the Multiplexer *)

Select ==
    \E channel \in U4Constants,
       o0 \in Outcomes("select0"), o1 \in Outcomes("select1"),
       o2 \in Outcomes("select2"), o3 \in Outcomes("select3") :
        \E s \in {select(<<select0, select1, select2, select3>>, channel,
                          <<o0, o1, o2, o3>>)} :
            /\ select0' = s.levels[1]
            /\ select1' = s.levels[2]
            /\ select2' = s.levels[3]
            /\ select3' = s.levels[4]
            /\ op' = Call("select", channel)
            /\ result' = s.ret
            /\ log' = s.log
            /\ UNCHANGED <<io, enable>>
            /\ prev' = Previous
            /\ UNCHANGED u4Vars

Enable ==
    \E out \in Outcomes("enable") :
        LET r == mux_enable(enable, out)
        IN  /\ enable' = r.level
            /\ op' = Call("enable", <<>>)
            /\ result' = r.ret
            /\ log' = <<LogEntry("enable", r)>>
            /\ UNCHANGED <<select0, select1, select2, select3, io>>
            /\ prev' = Previous
            /\ UNCHANGED u4Vars

Disable ==
    \E out \in Outcomes("enable") :
        LET r == mux_disable(enable, out)
        IN  /\ enable' = r.level
            /\ op' = Call("disable", <<>>)
            /\ result' = r.ret
            /\ log' = <<LogEntry("enable", r)>>
            /\ UNCHANGED <<select0, select1, select2, select3, io>>
            /\ prev' = Previous
            /\ UNCHANGED u4Vars

SetHigh ==
    \E out \in Outcomes("io") :
        LET r == mux_set_high(io, out)
        IN  /\ io' = r.level
            /\ op' = Call("set_high", <<>>)
            /\ result' = r.ret
            /\ log' = <<LogEntry("io", r)>>
            /\ UNCHANGED <<select0, select1, select2, select3, enable>>
            /\ prev' = Previous
            /\ UNCHANGED u4Vars

SetLow ==
    \E out \in Outcomes("io") :
        LET r == mux_set_low(io, out)
        IN  /\ io' = r.level
            /\ op' = Call("set_low", <<>>)
            /\ result' = r.ret
            /\ log' = <<LogEntry("io", r)>>
            /\ UNCHANGED <<select0, select1, select2, select3, enable>>
            /\ prev' = Previous
            /\ UNCHANGED u4Vars

IsHigh ==
    \E out \in Outcomes("io") :
        LET r == mux_is_high(io, out)
        IN  /\ op' = Call("is_high", <<>>)
            /\ result' = r.ret
            /\ log' = <<LogEntry("io", r)>>
            /\ UNCHANGED <<select0, select1, select2, select3, io, enable>>
            /\ prev' = Previous
            /\ UNCHANGED u4Vars

IsLow ==
    \E out \in Outcomes("io") :
        LET r == mux_is_low(io, out)
        IN  /\ op' = Call("is_low", <<>>)
            /\ result' = r.ret
            /\ log' = <<LogEntry("io", r)>>
            /\ UNCHANGED <<select0, select1, select2, select3, io, enable>>
            /\ prev' = Previous
            /\ UNCHANGED u4Vars

Channel ==
    /\ op' = Call("channel", <<>>)
    /\ result' = mux_channel.ret
    /\ log' = <<LogEntry("io", mux_channel)>>
    /\ UNCHANGED <<select0, select1, select2, select3, io, enable>>
    /\ prev' = Previous
    /\ UNCHANGED u4Vars

----------------------------------------------------------------------------
(* Actions on U4: a value is built once from an input, then converted back *)

TryFrom ==
    /\ uop = "none"
    /\ \E val \in U16 :
        /\ uin' = <<val>>
        /\ ures' = try_from(val)
    /\ uop' = "try_from"
    /\ UNCHANGED uout
    /\ UNCHANGED muxVars

Truncated ==
    /\ uop = "none"
    /\ \E val \in U16 :
        /\ uin' = <<val>>
        /\ ures' = [tag |-> "U4", val |-> truncated(val)]
    /\ uop' = "truncated"
    /\ UNCHANGED uout
    /\ UNCHANGED muxVars

Constant ==
    /\ uop = "none"
    /\ \E c \in U4Constants : ures' = [tag |-> "U4", val |-> c]
    /\ uop' = "constant"
    /\ UNCHANGED <<uin, uout>>
    /\ UNCHANGED muxVars

Into ==
    /\ ures.tag \in {"Ok", "U4"}
    /\ uout = <<>>
    /\ uout' = <<U16From(ures.val)>>
    /\ UNCHANGED <<uop, uin, ures>>
    /\ UNCHANGED muxVars

----------------------------------------------------------------------------

U4Idle ==
    /\ uop = "none"
    /\ uin = <<>>
    /\ ures = [tag |-> "none", val |-> <<>>]
    /\ uout = <<>>

\* Multiplexer::new over pins that were configured beforehand
Init ==
    /\ select0 \in BOOLEAN
    /\ select1 \in BOOLEAN
    /\ select2 \in BOOLEAN
    /\ select3 \in BOOLEAN
    /\ io \in BOOLEAN
    /\ enable \in BOOLEAN
    /\ op = Call("new", <<>>)
    /\ result = <<>>
    /\ log = <<>>
    /\ prev = [name |-> "none", tag |-> "none"]
    /\ U4Idle

InitU4 ==
    /\ select0 = FALSE
    /\ select1 = FALSE
    /\ select2 = FALSE
    /\ select3 = FALSE
    /\ io = FALSE
    /\ enable = FALSE
    /\ op = Call("new", <<>>)
    /\ result = <<>>
    /\ log = <<>>
    /\ prev = [name |-> "none", tag |-> "none"]
    /\ U4Idle

Next ==
    \/ Select
    \/ Enable
    \/ Disable
    \/ SetHigh
    \/ SetLow
    \/ IsHigh
    \/ IsLow
    \/ Channel

NextU4 ==
    \/ TryFrom
    \/ Truncated
    \/ Constant
    \/ Into

Spec == Init /\ [][Next]_vars

SpecU4 == InitU4 /\ [][NextU4]_vars

----------------------------------------------------------------------------
(* Properties *)

Levels == <<select0, select1, select2, select3>>

\* bit k of a channel number: (c >> k) & 1
BitOf(c, k) == (c \div (2 ^ k)) % 2

\* the levels that spell channel number c on the four select lines
BitLevels(c) == <<BitOf(c, 0) = 1, BitOf(c, 1) = 1, BitOf(c, 2) = 1, BitOf(c, 3) = 1>>

\* the number k of the select line a pin name or an error tag stands for
LineOf(names, name) == CHOOSE k \in 0..3 : names[k + 1] = name

Failed(entry) == entry.ret[1] = "Err"

\* C1: after a select(c) that returned Ok, select line k is high iff bit k
\* of c is 1, for k = 0..3.
SelectDrivesBits ==
    (op.name = "select" /\ result = <<"Ok">>) =>
        \A k \in 0..3 : Levels[k + 1] = (BitOf(U16From(op.arg), k) = 1)

\* C1 witness: select(FIVE) returned Ok after four writes and left select0
\* high, select1 low, select2 high, select3 low.
SelectFiveDriven ==
    /\ op = Call("select", FIVE)
    /\ result = <<"Ok">>
    /\ Levels = <<TRUE, FALSE, TRUE, FALSE>>
    /\ Len(log) = 4

\* C2: when the write to line k is the first one that fails during a
\* select, the call returns Err(Selectk(cause)) with that pin's own error,
\* and no line after k is written.
SelectFailureTagged ==
    op.name = "select" =>
        \A i \in 1..Len(log) :
            (Failed(log[i]) /\ \A j \in 1..(i - 1) : ~Failed(log[j])) =>
                LET k == LineOf(SelectPin, log[i].pin)
                IN  /\ log[i].out \in PinErrors[SelectPin[k + 1]]
                    /\ result = <<"Err", SelectTag[k + 1], log[i].out>>
                    /\ \A m \in 1..Len(log) : LineOf(SelectPin, log[m].pin) <= k

\* C2 witness: select(TWELVE) with select2 rejecting its write returned
\* Select2 with select2's error after three writes, and select3, which was
\* low, is still low although bit 3 of 12 is 1.
SelectTwelveFailsAtSelect2 ==
    /\ op = Call("select", TWELVE)
    /\ result = <<"Err", "Select2", "S2::Error">>
    /\ Len(log) = 3
    /\ select3 = FALSE

\* C3: a select writes select0, select1, select2, select3 in that order,
\* each at most once, a line only after the one before it was written
\* successfully, and all four when it returns Ok.
SelectWritesInOrder ==
    op.name = "select" =>
        /\ Len(log) \in 1..4
        /\ \A i \in 1..Len(log) :
            /\ log[i].pin = SelectPin[i]
            /\ log[i].call \in {"set_high", "set_low"}
            /\ i < Len(log) => ~Failed(log[i])
        /\ result = <<"Ok">> => Len(log) = 4

\* C3 witness: a successful select(TEN) made exactly the four writes
\* select0 low, select1 high, select2 low, select3 high, in that order.
SelectTenWroteFourLines ==
    /\ op = Call("select", TEN)
    /\ result = <<"Ok">>
    /\ [i \in 1..Len(log) |-> <<log[i].pin, log[i].call>>] =
        << <<"select0", "set_low">>, <<"select1", "set_high">>,
           <<"select2", "set_low">>, <<"select3", "set_high">> >>

\* C4: is_high on the multiplexer returns what the shared line's is_high
\* returns, and is_low on the multiplexer returns what the shared line's
\* is_low returns, in every state of the shared line.
ReadsForwardToSameOperation ==
    /\ op.name = "is_high" => result = PinIsHigh(io, log[1].out).ret
    /\ op.name = "is_low" => result = PinIsLow(io, log[1].out).ret

\* C5: enable drives the enable line low and disable drives it high; a
\* rejected write is returned as the enable line's error unchanged, and an
\* accepted one returns Ok.
EnableIsActiveLow ==
    op.name \in {"enable", "disable"} =>
        /\ Len(log) = 1
        /\ log[1].pin = "enable"
        /\ log[1].call = IF op.name = "enable" THEN "set_low" ELSE "set_high"
        /\ IF log[1].out = "ok"
           THEN /\ result = <<"Ok">>
                /\ enable = (op.name = "disable")
           ELSE /\ log[1].out \in PinErrors["enable"]
                /\ result = <<"Err", log[1].out>>

\* C5 witness: enable returned Ok right after a successful disable, and
\* the enable line, which disable had driven high, is low.
EnabledAfterDisable ==
    /\ op.name = "enable"
    /\ result = <<"Ok">>
    /\ prev = [name |-> "disable", tag |-> "Ok"]
    /\ enable = FALSE

\* C6: try_from(v) is Ok iff 0 <= v <= 15; an Ok value converts back to
\* exactly v, and every other v gives the payload-free error.
TryFromValidates ==
    uop = "try_from" =>
        /\ ures.tag = "Ok" <=> (0 <= uin[1] /\ uin[1] <= 15)
        /\ ures.tag # "Ok" => ures = [tag |-> "Err", val |-> <<>>]
        /\ (ures.tag = "Ok" /\ uout # <<>>) => uout = uin

\* C6 witness: try_from(15) succeeded and converted back to 15.
TryFromFifteenRoundTrips ==
    /\ uop = "try_from"
    /\ uin = <<15>>
    /\ ures.tag = "Ok"
    /\ uout = <<15>>

\* C7: every U4 that exists - a named constant, an Ok of try_from, any
\* truncated(v), which never fails - holds and converts to an integer in
\* 0..15.
U4InRange ==
    /\ uop = "truncated" => ures.tag = "U4"
    /\ ures.tag \in {"Ok", "U4"} => U16From(ures.val) \in 0..15
    /\ uout # <<>> => uout[1] \in 0..15

\* C7 witness: truncated(65535) yielded a value that was converted back.
TruncatedLargestConverted ==
    /\ uop = "truncated"
    /\ uin = <<U16Max>>
    /\ uout # <<>>

\* C8: truncated(v) converts back to v mod 16 for every u16 v.
TruncatedIsModSixteen ==
    uop = "truncated" => U16From(ures.val) = uin[1] % 16

\* C9: a select(c) that returns Ok leaves the select lines spelling c
\* whatever the lines were and whatever call came before, and a select(c)
\* right after a successful select(c) changes no line.
SelectStatelessIdempotent ==
    [][/\ (op'.name = "select" /\ result' = <<"Ok">>) =>
            Levels' = BitLevels(U16From(op'.arg))
       /\ (op.name = "select" /\ result = <<"Ok">> /\ op' = op) =>
            /\ Levels' = Levels
            /\ io' = io
            /\ enable' = enable]_vars

\* C9 witness: select(TEN) returned Ok right after a select that had
\* failed, and the lines spell 10.
SelectTenAfterFailedSelect ==
    /\ op = Call("select", TEN)
    /\ result = <<"Ok">>
    /\ prev = [name |-> "select", tag |-> "Err"]
    /\ Levels = <<FALSE, TRUE, FALSE, TRUE>>

\* C10: select never changes the I/O or the enable line, and when it fails
\* at line k the lines before k have their new levels and the lines from k
\* on the levels they had; enable and disable change no select line and not
\* the I/O line; set_high, set_low, is_high and is_low change no select
\* line and not the enable line.
OperationsWriteOwnLines ==
    [][/\ op'.name = "select" =>
            /\ io' = io
            /\ enable' = enable
            /\ result'[1] = "Err" =>
                LET k == LineOf(SelectTag, result'[2])
                IN  \A j \in 0..3 :
                        Levels'[j + 1] =
                            IF j < k THEN BitOf(U16From(op'.arg), j) = 1
                            ELSE Levels[j + 1]
       /\ op'.name \in {"enable", "disable"} =>
            /\ Levels' = Levels
            /\ io' = io
       /\ op'.name \in {"set_high", "set_low", "is_high", "is_low"} =>
            /\ Levels' = Levels
            /\ enable' = enable]_vars

\* C10 witness: select(SEVEN) failed at select2: select0 and select1 are
\* high as bits 0 and 1 of 7 ask, select2 is still low, and select3 is
\* still high although bit 3 of 7 is 0.
SelectSevenLeftPartial ==
    /\ op = Call("select", SEVEN)
    /\ result = <<"Err", "Select2", "S2::Error">>
    /\ Levels = <<TRUE, TRUE, FALSE, TRUE>>

====
